---- MODULE Spec2Model ----
(***************************************************************************)
(* A model of vrpm.c, the Vivaldi RAM profile manager: one invocation of   *)
(* the program is one action.  The state is what the program reads and     *)
(* writes on the machine: the persistent profile directory, the RAM        *)
(* staging directory, the bind mount, the backup directory and the clock,  *)
(* plus a record of what the last invocation did and printed.  Where two   *)
(* invocations run at once, each is at a position between its own steps.   *)
(***************************************************************************)
EXTENDS Integers, Sequences, FiniteSets, TLC

VARIABLES disk, ramDir, ram, mounted, backupDir, backups, outside, now, last, pc

vars == <<disk, ramDir, ram, mounted, backupDir, backups, outside, now, last, pc>>

(* ------------------------------ bounds --------------------------------- *)

\* File contents are one of the byte strings 1..MaxByte.
MaxByte == 2
\* The clock runs over 0..MaxTime.
MaxTime == 2

(* ------------------------------ trees ---------------------------------- *)

\* A path below a root is the sequence of its components.
Parent(p) == SubSeq(p, 1, Len(p) - 1)

\* The contents of a regular file: plain bytes, or the tar stream of a tree.
Bytes(b) == [bytes |-> b, tar |-> << >>]
DirNode == [dir |-> TRUE, data |-> Bytes(0)]
FileNode(d) == [dir |-> FALSE, data |-> d]

\* A tree maps each path that exists below the root to its node; every
\* path's parent is a directory of the tree.
WellFormed(T) ==
    \A p \in DOMAIN T : Len(p) > 1 => (Parent(p) \in DOMAIN T /\ T[Parent(p)].dir)

EmptyTree == [p \in {} |-> DirNode]

\* The tree with path p set to node n.
Put(T, p, n) == [q \in DOMAIN T \cup {p} |-> IF q = p THEN n ELSE T[q]]

A_TXT == <<"a.txt">>
SUB == <<"sub">>
SUB_B == <<"sub", "b.txt">>

\* The profile trees the program may be started on.
ProfileTrees ==
    { T \in UNION { [D -> {DirNode} \cup {FileNode(Bytes(b)) : b \in 1..MaxByte}]
                      : D \in SUBSET {A_TXT, SUB, SUB_B} } :
        /\ WellFormed(T)
        /\ \A p \in DOMAIN T : T[p].dir <=> (p = SUB) }

(* ------------------------------ mirror --------------------------------- *)

\* rsync -a --delete src/ dst/ that got as far as transferring the paths of
\* S: a path of S ends as it is in src (copied, or deleted when src has
\* none), every other path stays as dst had it.
Rsync(src, dst, S) ==
    [p \in ((DOMAIN dst) \ S) \cup ((DOMAIN src) \cap S) |->
        IF p \in S THEN src[p] ELSE dst[p]]

\* Every path rsync has to look at.
MirrorPaths(src, dst) == (DOMAIN src) \cup (DOMAIN dst)

\* The sets of paths a run of rsync may get through before it stops: all
\* of them when it completes; none when it fails at once or popen could not
\* start it; the entries of the root alone when it fails before descending.
RsyncRuns(src, dst) ==
    { MirrorPaths(src, dst), {},
      { p \in MirrorPaths(src, dst) : Len(p) = 1 } }

MirrorStatus(src, dst, S) ==
    IF S = MirrorPaths(src, dst) THEN "rsync:complete"
    ELSE IF S = {} THEN "rsync:none" ELSE "rsync:partial"

(* --------------------------- the environment --------------------------- *)

\* ramDir: PROFILE_RAM exists, and ram is the tree below it (empty when it
\* does not exist).  backupDir and backups: the same for BACKUP_DIR.
\* What PROFILE_SRC shows: the RAM copy while it is bind-mounted over it.
Visible == IF mounted THEN ram ELSE disk

\* is_mounted with the test of the exit status turned round.
is_mounted_inverted == ~mounted

\* mountpoint -q PROFILE_SRC
is_mounted == mounted

\* What one invocation did: the command, the process's exit code, the
\* message it ended with, the system-level steps it ran (in order), the
\* backup file it chose and the count it printed (-1: none); then what
\* passed at its prompts: the answer to confirm() ("unasked" when it never
\* asked), the list restore-select displayed and the line typed at it.
NoName == << >>
NoInput == [c |-> "none", n |-> 0]
Obs(cmd, exit, out, log, pick, count) ==
    [cmd |-> cmd, exit |-> exit, out |-> out, log |-> log, pick |-> pick,
     count |-> count, answer |-> "unasked", shown |-> << >>, input |-> NoInput]

\* An invocation that changes nothing on the machine.
Quiet == UNCHANGED <<disk, ramDir, ram, mounted, backupDir, backups, outside>>

\* Every invocation of the program takes a tick of the clock, and a run
\* is the invocations that fit in 0..MaxTime.  Run as one step, it is on
\* its own: no other invocation is between its steps.
Tick == now < MaxTime /\ now' = now + 1 /\ UNCHANGED pc

\* The browser rewrites a file of its profile, through PROFILE_SRC.
VivaldiWrite ==
    \E b \in 1..MaxByte :
        /\ IF mounted
             THEN ram' = Put(ram, A_TXT, FileNode(Bytes(b))) /\ UNCHANGED disk
             ELSE disk' = Put(disk, A_TXT, FileNode(Bytes(b))) /\ UNCHANGED ram
        /\ UNCHANGED ramDir
        /\ last' = Obs("vivaldi", 0, "write", << >>, NoName, -1)
        /\ UNCHANGED <<mounted, backupDir, backups, outside, now, pc>>

(* ------------------------------- load ---------------------------------- *)

\* main, the --load branch.
Load ==
    /\ Tick
    /\ \E rsyncInstalled, mkdirOk, mountOk \in BOOLEAN :
        IF ~rsyncInstalled
        THEN /\ last' = Obs("load", 1, "rsync_missing", << >>, NoName, -1)
             /\ Quiet
        ELSE IF is_mounted
        THEN /\ last' = Obs("load", 0, "already", << >>, NoName, -1)
             /\ Quiet
        ELSE
          \* mkdir -p PROFILE_RAM; rsync and mount need the directory
          LET made == ramDir \/ mkdirOk
          IN  \E S \in (IF made THEN RsyncRuns(disk, ram) ELSE {{}}) :
                LET status == IF made THEN MirrorStatus(disk, ram, S)
                              ELSE "rsync:none"
                    bound  == mountOk /\ made
                IN  /\ ramDir' = made
                    /\ ram' = IF made THEN Rsync(disk, ram, S) ELSE ram
                    /\ mounted' = bound
                    /\ last' = Obs("load", 0,
                                   IF bound THEN "loaded" ELSE "mount_failed",
                                   <<IF made THEN "mkdir:ok" ELSE "mkdir:fail",
                                     status,
                                     IF bound THEN "mount:ok" ELSE "mount:fail">>,
                                   NoName, -1)
                    /\ UNCHANGED <<disk, backupDir, backups, outside>>

(* ------------------------------- save ---------------------------------- *)

\* confirm(): only an answer starting with y or Y is a yes; anything else,
\* and end of input, is a no.
Answers == {"y", "Y", "n", "", "eof"}
confirm(answer) == answer \in {"y", "Y"}

\* The invocation o, having put its question to confirm() and read answer.
Asked(o, answer) == [o EXCEPT !.answer = IF confirm(answer) THEN "yes" ELSE "no"]

\* handle_save without the test of umount's exit status.
handle_save_umount_unchecked ==
    /\ Tick
    /\ \E vivaldiRunning, umountOk, rmOk \in BOOLEAN, answer \in Answers :
        LET asked(o) == IF vivaldiRunning THEN Asked(o, answer) ELSE o IN
        IF ~is_mounted
        THEN /\ last' = Obs("save", 0, "not_mounted", << >>, NoName, -1)
             /\ Quiet
        ELSE IF vivaldiRunning /\ ~confirm(answer)
        THEN /\ last' = asked(Obs("save", 0, "declined", << >>, NoName, -1))
             /\ Quiet
        ELSE
          \E S \in (IF ramDir THEN RsyncRuns(ram, disk) ELSE {{}}) :
            LET status == IF ramDir THEN MirrorStatus(ram, disk, S)
                          ELSE "rsync:none"
            IN  /\ mounted' = ~umountOk
                /\ disk' = IF ramDir /\ umountOk THEN Rsync(ram, disk, S) ELSE disk
                /\ ramDir' = (ramDir /\ ~rmOk)
                /\ ram' = IF rmOk THEN EmptyTree ELSE ram
                /\ last' = asked(Obs("save", 0, "saved",
                               <<IF umountOk THEN "umount:ok" ELSE "umount:fail",
                                 status,
                                 IF rmOk THEN "rm:ok" ELSE "rm:fail">>,
                               NoName, -1))
                /\ UNCHANGED <<backupDir, backups, outside>>

handle_save ==
    /\ Tick
    /\ \E vivaldiRunning, umountOk, rmOk \in BOOLEAN, answer \in Answers :
        \* confirm() is called only when Vivaldi is running
        LET asked(o) == IF vivaldiRunning THEN Asked(o, answer) ELSE o IN
        IF ~is_mounted
        THEN /\ last' = Obs("save", 0, "not_mounted", << >>, NoName, -1)
             /\ Quiet
        ELSE IF vivaldiRunning /\ ~confirm(answer)
        THEN /\ last' = asked(Obs("save", 0, "declined", << >>, NoName, -1))
             /\ Quiet
        ELSE IF ~umountOk
        THEN /\ last' = asked(Obs("save", 0, "unmount_failed", <<"umount:fail">>,
                            NoName, -1))
             /\ Quiet
        ELSE
          \E S \in (IF ramDir THEN RsyncRuns(ram, disk) ELSE {{}}) :
            LET status == IF ramDir THEN MirrorStatus(ram, disk, S)
                          ELSE "rsync:none"
            IN  /\ mounted' = FALSE
                /\ disk' = IF ramDir THEN Rsync(ram, disk, S) ELSE disk
                \* rm -rf PROFILE_RAM, whatever rsync did
                /\ ramDir' = (ramDir /\ ~rmOk)
                /\ ram' = IF rmOk THEN EmptyTree ELSE ram
                /\ last' = asked(Obs("save", 0, "saved",
                               <<"umount:ok", status,
                                 IF rmOk THEN "rm:ok" ELSE "rm:fail">>,
                               NoName, -1))
                /\ UNCHANGED <<backupDir, backups, outside>>

(* --------------------------- backup files ------------------------------ *)

\* A file name of BACKUP_DIR is the sequence of its characters.
ZIP == <<".", "z", "i", "p">>
PREFIX ==
    <<"v", "i", "v", "a", "l", "d", "i", "-", "p", "r", "o", "f", "i", "l", "e", "-">>

\* strstr(name, needle) != NULL
strstr(name, needle) ==
    \E i \in 1..(Len(name) - Len(needle) + 1) :
        SubSeq(name, i, i + Len(needle) - 1) = needle

\* strftime of the clock: the seconds are what tells two stamps apart.
Stamp(t) == <<"0", "1", "2", "3", "4", "5", "6", "7", "8", "9">>[t + 1]

\* BACKUP_DIR/vivaldi-profile-<stamp>.zip
BackupName(t) == PREFIX \o <<Stamp(t)>> \o ZIP

\* The files found in BACKUP_DIR that no backup of this run wrote.
A_ZIP == <<"a">> \o ZIP
B_ZIP == <<"b">> \o ZIP
C_ZIP_BAK == <<"c">> \o ZIP \o <<".", "b", "a", "k">>
NOTES == <<"n", "o", "t", "e", "s">>
UserNames == {A_ZIP, B_ZIP, C_ZIP_BAK, NOTES}

\* An archive entry: its name, a sequence of components and "/" separators,
\* its bytes, and whether zip_fopen_index can open it.
Entry(name, data, readable) == [name |-> name, data |-> data, readable |-> readable]

\* A file of BACKUP_DIR: its modification time, whether stat() can read it,
\* whether zip_open can open it, and the entries it then holds.
File(mtime, statOk, valid, arch) ==
    [mtime |-> mtime, statOk |-> statOk, valid |-> valid, arch |-> arch]

\* tar -cf - . run in the root of T: the root itself and every path of T.
TarOf(T) == Put(T, << >>, DirNode)
TarStream(T) == [bytes |-> 0, tar |-> TarOf(T)]

\* zip -q -9 <archive> - : one entry, named "-", holding standard input.
createArchive(T) == << Entry(<<"-">>, TarStream(T), TRUE) >>

\* What the archives that were in BACKUP_DIR from the start hold.
UserArchive(name) ==
    IF name = A_ZIP
    THEN << Entry(<<"sub", "/">>, Bytes(0), TRUE),
            Entry(<<"sub", "/", "b.txt">>, Bytes(1), TRUE),
            Entry(<<"a.txt">>, Bytes(1), TRUE) >>
    ELSE IF name = B_ZIP
    THEN << Entry(<<"..", "/", "evil">>, Bytes(1), TRUE),
            Entry(<<"new", "/", "c.txt">>, Bytes(1), TRUE),
            Entry(<<"a.txt">>, Bytes(1), FALSE) >>
    ELSE IF name = C_ZIP_BAK
    THEN << Entry(<<"a.txt">>, Bytes(MaxByte), TRUE) >>
    ELSE << >>

\* An existing file that is a readable archive exactly when its name says so.
UserFile(name, mtime, statOk) ==
    File(mtime, statOk, name \in {A_ZIP, B_ZIP, C_ZIP_BAK}, UserArchive(name))

(* ------------------------------ backup --------------------------------- *)

\* main, the --backup branch.
Backup ==
    /\ Tick
    /\ \E mkdirOk \in BOOLEAN, zipOutcome \in {"written", "nothing", "truncated"} :
        IF ~is_mounted
        THEN /\ last' = Obs("backup", 1, "not_active", << >>, NoName, -1)
             /\ Quiet
        ELSE
          LET made    == backupDir \/ mkdirOk
              name    == BackupName(now)
              written == made /\ zipOutcome # "nothing"
              file    == File(now, TRUE, zipOutcome = "written",
                              IF zipOutcome = "written"
                              THEN createArchive(Visible) ELSE << >>)
          IN  /\ backupDir' = made
              /\ backups' = IF written
                            THEN [n \in DOMAIN backups \cup {name} |->
                                    IF n = name THEN file ELSE backups[n]]
                            ELSE backups
              /\ last' = Obs("backup", 0, "backup_done",
                             <<IF made THEN "mkdir:ok" ELSE "mkdir:fail",
                               IF ~written THEN "zip:nothing"
                               ELSE IF zipOutcome = "written" THEN "zip:written"
                               ELSE "zip:truncated">>,
                             IF written THEN name ELSE NoName, -1)
              /\ UNCHANGED <<disk, ramDir, ram, mounted, outside>>

(* ------------------------------ restore -------------------------------- *)

\* The components of an entry name, between its separators.
Components(name) == SelectSeq(name, LAMBDA c : c # "/")

\* Where PROFILE_SRC/<name> leads, walking the directories of T from cur:
\* "in" with the path below the root, "out" when .. climbs above the root,
\* "fail" when a directory on the way is missing or the name ends in ..
RECURSIVE Resolve(_, _, _)
Resolve(T, cur, comps) ==
    IF comps = << >> THEN [where |-> "fail", path |-> cur]
    ELSE LET c == Head(comps) rest == Tail(comps) IN
      IF c = ".."
      THEN IF cur = << >> THEN [where |-> "out", path |-> comps]
           ELSE IF rest = << >> THEN [where |-> "fail", path |-> cur]
           ELSE Resolve(T, Parent(cur), rest)
      ELSE IF rest = << >> THEN [where |-> "in", path |-> Append(cur, c)]
      ELSE IF Append(cur, c) \in DOMAIN T /\ T[Append(cur, c)].dir
           THEN Resolve(T, Append(cur, c), rest)
           ELSE [where |-> "fail", path |-> cur]

\* One turn of perform_restore's second loop, on entry e, from st: the
\* profile tree, the paths written outside it, and each entry's result.
ExtractEntry(st, e) ==
    LET T   == st.tree
        to  == Resolve(T, << >>, Components(e.name))
        isDirName == e.name[Len(e.name)] = "/"
        \* mkdir(out_path, 0755): an error is ignored
        mkdirOk == to.where = "in" /\ to.path \notin DOMAIN T
        \* fopen(out_path, "wb")
        fopenOk == to.where = "in" /\ ~(to.path \in DOMAIN T /\ T[to.path].dir)
        \* the bytes written: none unless zip_fopen_index opened the entry
        data == IF e.readable THEN e.data ELSE Bytes(0)
    IN  IF to.where = "out"
        THEN [tree |-> T, outside |-> st.outside \cup {to.path},
              log |-> Append(st.log, IF isDirName \/ e.readable
                                     THEN "entry:ok" ELSE "entry:fail")]
        ELSE IF isDirName
        THEN [tree |-> IF mkdirOk THEN Put(T, to.path, DirNode) ELSE T,
              outside |-> st.outside,
              log |-> Append(st.log, IF mkdirOk THEN "entry:ok" ELSE "entry:fail")]
        ELSE [tree |-> IF fopenOk THEN Put(T, to.path, FileNode(data)) ELSE T,
              outside |-> st.outside,
              log |-> Append(st.log, IF fopenOk /\ e.readable
                                     THEN "entry:ok" ELSE "entry:fail")]

RECURSIVE ExtractAll(_, _)
ExtractAll(st, entries) ==
    IF entries = << >> THEN st
    ELSE ExtractAll(ExtractEntry(st, Head(entries)), Tail(entries))

\* perform_restore(zip_path) on the tree T that PROFILE_SRC shows.
perform_restore(file, T) ==
    IF ~file.valid
    THEN [tree |-> T, outside |-> outside, log |-> <<"zip_open:fail">>,
          out |-> "open_failed"]
    ELSE LET st == ExtractAll([tree |-> T, outside |-> outside,
                               log |-> <<"zip_open:ok">>], file.arch)
         IN  [tree |-> st.tree, outside |-> st.outside, log |-> st.log,
              out |-> "restore_complete"]

(* --------------------------- the catalog ------------------------------- *)

\* The names the program takes for backups: strstr(d_name, ".zip").
Matching == { n \in DOMAIN backups : strstr(n, ZIP) }

\* readdir returns the entries of a directory in an order of its own.
RECURSIVE Orders(_)
Orders(S) ==
    IF S = {} THEN { << >> }
    ELSE UNION { { <<x>> \o o : o \in Orders(S \ {x}) } : x \in S }

\* What an uninitialised struct stat may hold as st_mtime.
GarbageTimes == (-1)..MaxTime
Unreadable == { n \in Matching : ~backups[n].statOk }

\* st.st_mtime after an unchecked stat(): the file's time, or what was there.
StatTime(n, g) == IF backups[n].statOk THEN backups[n].mtime ELSE g[n]

\* handle_restore keeps at most this many files.
RESTORE_MAX == 128
Listed(order) ==
    SubSeq(order, 1, IF Len(order) < RESTORE_MAX THEN Len(order) ELSE RESTORE_MAX)

\* for (i = 1; i < count; i++) if (times[i] > times[pick]) pick = i;
RECURSIVE PickLatest(_, _, _, _)
PickLatest(files, g, i, pick) ==
    IF i > Len(files) THEN pick
    ELSE PickLatest(files, g, i + 1,
                    IF StatTime(files[i], g) > StatTime(files[pick], g)
                    THEN i ELSE pick)

\* What the user types at the selection prompt: nothing (end of input), a
\* line starting with x or X, or a line atoi reads as n (0 for no number).
Inputs(count) ==
    { [c |-> "eof", n |-> 0], [c |-> "x", n |-> 0], [c |-> "X", n |-> 0] }
    \cup { [c |-> "line", n |-> k] : k \in (-1)..(count + 1) }

\* The invocation o, having displayed files as [1]..[count] and read input.
Prompted(o, files, input) == [o EXCEPT !.shown = files, !.input = input]

\* The selection that takes the first file listed, whatever was typed.
Chosen_first(files, n) == files[1]

\* pick = atoi(input); pick--; perform_restore(files[pick])
Chosen(files, n) == files[n]

SetVisible(T) ==
    IF mounted THEN ram' = T /\ UNCHANGED disk ELSE disk' = T /\ UNCHANGED ram

handle_restore(interactive) ==
    Tick /\
    IF ~is_mounted
    THEN /\ last' = Obs(IF interactive THEN "restore-select" ELSE "restore", 0,
                        "not_active", << >>, NoName, -1)
         /\ Quiet
    ELSE IF ~backupDir
    THEN /\ last' = Obs(IF interactive THEN "restore-select" ELSE "restore", 0,
                        "dir_not_found", << >>, NoName, -1)
         /\ Quiet
    ELSE
      \E order \in Orders(Matching) :
        LET files == Listed(order)
            count == Len(files)
            cmd   == IF interactive THEN "restore-select" ELSE "restore"
        IN
        IF count = 0
        THEN /\ last' = Obs(cmd, 0, "no_backups", << >>, NoName, -1)
             /\ Quiet
        ELSE IF interactive
        THEN
          \E input \in Inputs(count) :
            IF input.c = "eof"
            THEN /\ last' = Prompted(Obs(cmd, 0, "eof", << >>, NoName, count),
                                     files, input)
                 /\ Quiet
            ELSE IF input.c \in {"x", "X"}
            THEN /\ last' = Prompted(Obs(cmd, 0, "cancelled", << >>, NoName, count),
                                     files, input)
                 /\ Quiet
            ELSE IF input.n < 1 \/ input.n > count
            THEN /\ last' = Prompted(Obs(cmd, 0, "invalid_selection", << >>,
                                         NoName, count), files, input)
                 /\ Quiet
            ELSE
              LET zip == Chosen(files, input.n)
                  r   == perform_restore(backups[zip], Visible)
              IN  /\ SetVisible(r.tree)
                  /\ outside' = r.outside
                  /\ last' = Prompted(Obs(cmd, 0, r.out, r.log, zip, count),
                                      files, input)
                  /\ UNCHANGED <<ramDir, mounted, backupDir, backups>>
        ELSE
          \E g \in [Unreadable -> GarbageTimes] :
              LET pick == PickLatest(files, g, 2, 1)
                  r    == perform_restore(backups[files[pick]], Visible)
              IN  /\ SetVisible(r.tree)
                  /\ outside' = r.outside
                  /\ last' = Obs(cmd, 0, r.out, r.log, files[pick], -1)
                  /\ UNCHANGED <<ramDir, mounted, backupDir, backups>>

Restore == handle_restore(FALSE)
RestoreSelect == handle_restore(TRUE)

(* ----------------------------- retention ------------------------------- *)

\* The backups that stay when remove() is tried on each name of gone.
Removed(gone, removeOk) ==
    IF removeOk THEN [n \in (DOMAIN backups) \ gone |-> backups[n]] ELSE backups

\* handle_clean_backups' first loop, from latest = "" and ltime = 0:
\* if (st.st_mtime > ltime) { ltime = st.st_mtime; latest = d_name; }
RECURSIVE ScanKeep(_, _, _, _)
ScanKeep(order, g, latest, ltime) ==
    IF order = << >> THEN latest
    ELSE LET n == Head(order) IN
         IF StatTime(n, g) > ltime
         THEN ScanKeep(Tail(order), g, n, StatTime(n, g))
         ELSE ScanKeep(Tail(order), g, latest, ltime)

handle_clean_backups ==
    Tick /\
    IF ~backupDir
    THEN /\ last' = Obs("clean-backup", 0, "no_dir", << >>, NoName, -1)
         /\ Quiet
    ELSE
      \E order \in Orders(Matching), g \in [Unreadable -> GarbageTimes],
         removeOk \in BOOLEAN :
        LET latest == ScanKeep(order, g, NoName, 0)
            gone   == { n \in Matching : n # latest }
        IN  /\ backups' = Removed(gone, removeOk)
            /\ last' = Obs("clean-backup", 0, "cleaned",
                           [i \in 1..Cardinality(gone) |->
                              IF removeOk THEN "remove:ok" ELSE "remove:fail"],
                           latest, -1)
            /\ UNCHANGED <<disk, ramDir, ram, mounted, backupDir, outside>>

handle_purge_backups ==
    /\ Tick
    /\ \E answer \in Answers, removeOk \in BOOLEAN :
        IF ~confirm(answer)
        THEN /\ last' = Asked(Obs("purge-backup", 0, "declined", << >>, NoName, -1),
                              answer)
             /\ Quiet
        ELSE IF ~backupDir
        THEN /\ last' = Asked(Obs("purge-backup", 0, "no_dir", << >>, NoName, -1),
                              answer)
             /\ Quiet
        ELSE
          \* if (remove(p) == 0) deleted_count++;
          LET deleted_count == IF removeOk THEN Cardinality(Matching) ELSE 0
          IN  /\ backups' = Removed(Matching, removeOk)
              /\ last' = Asked(Obs("purge-backup", 0, "purged",
                                  [i \in 1..Cardinality(Matching) |->
                                     IF removeOk THEN "remove:ok" ELSE "remove:fail"],
                                  NoName, deleted_count), answer)
              /\ UNCHANGED <<disk, ramDir, ram, mounted, backupDir, outside>>

(* ------------------------------- status -------------------------------- *)

\* show_status' loop, from latest = "none" and ltime = 0:
\* if (stat(p, &st) == 0 && st.st_mtime > ltime) { ... latest = d_name; }
RECURSIVE ScanStatus(_, _, _)
ScanStatus(order, latest, ltime) ==
    IF order = << >> THEN latest
    ELSE LET n == Head(order) IN
         IF backups[n].statOk /\ backups[n].mtime > ltime
         THEN ScanStatus(Tail(order), n, backups[n].mtime)
         ELSE ScanStatus(Tail(order), latest, ltime)

show_status ==
    /\ Tick
    /\ \E order \in Orders(IF backupDir THEN Matching ELSE {}) :
        /\ last' = Obs("status", 0, "status",
                       <<IF is_mounted THEN "ram:yes" ELSE "ram:no">>,
                       ScanStatus(order, NoName, 0), Len(order))
        /\ Quiet

\* du -sb of a tree, counted in file bytes.
RECURSIVE TreeSize(_, _)
TreeSize(T, paths) ==
    IF paths = {} THEN 0
    ELSE LET p == CHOOSE q \in paths : TRUE
         IN  T[p].data.bytes + TreeSize(T, paths \ {p})

get_dir_size(T) == TreeSize(T, DOMAIN T)

handle_check_ram ==
    /\ Tick
    /\ \E statfsOk \in BOOLEAN, free_ram \in {0, get_dir_size(Visible)} :
        /\ last' = Obs("check-ram", 0,
                       IF ~statfsOk THEN "statfs_failed"
                       ELSE IF get_dir_size(Visible) > free_ram THEN "insufficient"
                       ELSE "fits",
                       << >>, NoName, -1)
        /\ Quiet

(* ----------------------- two invocations at once ----------------------- *)

\* Two processes, each running the program once, on the same profile.  A
\* process is idle before its first step, done after its last, and in
\* between at the step of main or handle_save it is about to run.
Procs == {1, 2}

Goto(p, where) == pc' = [pc EXCEPT ![p] = where]

\* One step of an invocation: what it ran, and nothing chosen or counted.
StepObs(cmd, out, log) == Obs(cmd, 0, out, log, NoName, -1)

\* --load: if (is_mounted()) { "Already in RAM"; return 0; }
LoadCheck(p) ==
    /\ pc[p] = "idle"
    /\ IF is_mounted
       THEN Goto(p, "done") /\ last' = StepObs("load", "already", << >>)
       ELSE Goto(p, "load:mkdir") /\ last' = StepObs("load", "checked", << >>)
    /\ Quiet /\ UNCHANGED now

\* mkdir -p PROFILE_RAM
LoadMkdir(p) ==
    /\ pc[p] = "load:mkdir"
    /\ ramDir' = TRUE
    /\ Goto(p, "load:rsync")
    /\ last' = StepObs("load", "mkdir", <<"mkdir:ok">>)
    /\ UNCHANGED <<disk, ram, mounted, backupDir, backups, outside, now>>

\* rsync -a --delete PROFILE_SRC/ PROFILE_RAM/, from what PROFILE_SRC shows
LoadRsync(p) ==
    /\ pc[p] = "load:rsync"
    /\ \E S \in (IF ramDir THEN RsyncRuns(Visible, ram) ELSE {{}}) :
        /\ ram' = IF ramDir THEN Rsync(Visible, ram, S) ELSE ram
        /\ last' = StepObs("load", "rsync",
                           <<IF ramDir THEN MirrorStatus(Visible, ram, S)
                             ELSE "rsync:none">>)
    /\ Goto(p, "load:mount")
    /\ UNCHANGED <<disk, ramDir, mounted, backupDir, backups, outside, now>>

\* sudo mount --bind PROFILE_RAM PROFILE_SRC; a second bind mount goes on
\* top of the first.
LoadMount(p) ==
    /\ pc[p] = "load:mount"
    /\ \E mountOk \in BOOLEAN :
        LET bound == mountOk /\ ramDir
        IN  /\ mounted' = (mounted \/ bound)
            /\ last' = StepObs("load", IF bound THEN "loaded" ELSE "mount_failed",
                               <<IF bound THEN "mount:ok" ELSE "mount:fail">>)
    /\ Goto(p, "done")
    /\ UNCHANGED <<disk, ramDir, ram, backupDir, backups, outside, now>>

\* handle_save: if (!is_mounted()) { "not mounted"; return; }
SaveCheck(p) ==
    /\ pc[p] = "idle"
    /\ IF ~is_mounted
       THEN Goto(p, "done") /\ last' = StepObs("save", "not_mounted", << >>)
       ELSE Goto(p, "save:umount") /\ last' = StepObs("save", "checked", << >>)
    /\ Quiet /\ UNCHANGED now

\* sudo umount PROFILE_SRC, which fails when nothing is mounted there
SaveUmount(p) ==
    /\ pc[p] = "save:umount"
    /\ \E umountOk \in BOOLEAN :
        IF mounted /\ umountOk
        THEN /\ mounted' = FALSE
             /\ Goto(p, "save:rsync")
             /\ last' = StepObs("save", "unmounted", <<"umount:ok">>)
        ELSE /\ UNCHANGED mounted
             /\ Goto(p, "done")
             /\ last' = StepObs("save", "unmount_failed", <<"umount:fail">>)
    /\ UNCHANGED <<disk, ramDir, ram, backupDir, backups, outside, now>>

\* rsync -a --delete PROFILE_RAM/ PROFILE_SRC/, into what PROFILE_SRC shows
SaveRsync(p) ==
    /\ pc[p] = "save:rsync"
    /\ \E S \in (IF ramDir THEN RsyncRuns(ram, Visible) ELSE {{}}) :
        /\ IF ramDir /\ ~mounted
             THEN disk' = Rsync(ram, disk, S)
             ELSE UNCHANGED disk
        /\ last' = StepObs("save", "rsync",
                           <<IF ramDir THEN MirrorStatus(ram, Visible, S)
                             ELSE "rsync:none">>)
    /\ Goto(p, "save:rm")
    /\ UNCHANGED <<ramDir, ram, mounted, backupDir, backups, outside, now>>

\* rm -rf PROFILE_RAM; "Profile saved successfully."
SaveRm(p) ==
    /\ pc[p] = "save:rm"
    /\ ramDir' = FALSE
    /\ ram' = EmptyTree
    /\ Goto(p, "done")
    /\ last' = StepObs("save", "saved", <<"rm:ok">>)
    /\ UNCHANGED <<disk, mounted, backupDir, backups, outside, now>>

(* ------------------------- the state machine --------------------------- *)

\* The backup directories the program may be started on: each of names is
\* absent, or there with one of times and readable by stat(), or there and
\* unreadable; the files of others are there throughout.
Catalogs(names, times, others) ==
    { [n \in D \cup others |->
          IF n \in others THEN UserFile(n, 0, TRUE)
          ELSE UserFile(n, IF k[n] = -1 THEN 0 ELSE k[n], k[n] # -1)] :
        <<D, k>> \in UNION { {D} \X [D -> times \cup {-1}] : D \in SUBSET names } }

\* The machine when the program is first run: the profile on disk, or
\* already in RAM (as the session's service leaves it).
Start(trees, catalogs, loaded) ==
    /\ disk \in trees
    /\ mounted \in loaded
    /\ ramDir = mounted
    /\ ram = IF mounted THEN disk ELSE EmptyTree
    /\ backups \in catalogs
    /\ backupDir \in (IF backups = << >> THEN BOOLEAN ELSE {TRUE})
    /\ outside = {}
    /\ now = 0
    /\ last = Obs("start", 0, "none", << >>, NoName, -1)
    /\ pc = [p \in Procs |-> "idle"]

\* One invocation at a time, each run from its start to its end.
Next ==
    \/ VivaldiWrite
    \/ Load
    \/ handle_save
    \/ Backup
    \/ Restore
    \/ RestoreSelect
    \/ handle_clean_backups
    \/ handle_purge_backups
    \/ show_status
    \/ handle_check_ram

\* The profile of the specification's scenarios: a.txt and sub/b.txt.
ScenarioTree ==
    [p \in {A_TXT, SUB, SUB_B} |-> IF p = SUB THEN DirNode ELSE FileNode(Bytes(1))]

\* Any profile, with few backups.
Init == Start(ProfileTrees, Catalogs({C_ZIP_BAK}, {0}, {}), BOOLEAN)

Spec == Init /\ [][Next]_vars

\* One profile, with any backups.
InitCatalog ==
    Start({ScenarioTree},
          Catalogs({A_ZIP, B_ZIP}, {0, 1}, {NOTES})
              \cup Catalogs({A_ZIP, B_ZIP}, {0, 1}, {NOTES, C_ZIP_BAK}),
          {TRUE})

SpecCatalog == InitCatalog /\ [][Next]_vars

\* Two invocations of load or save, their steps interleaved.
NextRace ==
    \E p \in Procs :
        \/ LoadCheck(p)
        \/ LoadMkdir(p)
        \/ LoadRsync(p)
        \/ LoadMount(p)
        \/ SaveCheck(p)
        \/ SaveUmount(p)
        \/ SaveRsync(p)
        \/ SaveRm(p)

InitRace == Start(ProfileTrees, Catalogs({}, {0}, {}), BOOLEAN)

SpecRace == InitRace /\ [][NextRace]_vars

(* ------------------------------ claims --------------------------------- *)

\* Everything on the machine that an invocation can change.
machine == <<disk, ramDir, ram, mounted, backupDir, backups, outside>>

\* The step just taken was an invocation of one of cmds.
Ran(cmds) == last'.cmd \in cmds

\* C1: a save invoked while the profile is mounted that ends with "saved
\* successfully" leaves the persistent tree equal to the RAM copy as it was
\* when save started, the RAM path gone and the profile not mounted.
\* (Stated for the saves whose rm -rf did its work.)
C1_SaveMirrorsRam ==
    [][ (mounted /\ Ran({"save"}) /\ last'.out = "saved" /\ last'.log[3] = "rm:ok")
          => (disk' = ram /\ ~ramDir' /\ ~mounted') ]_vars

\* C2: a load invoked while the profile is not mounted that ends with the
\* profile mounted has made the RAM copy identical to the persistent tree.
C2_LoadMountsFullCopy ==
    [][ (~mounted /\ Ran({"load"}) /\ mounted') => (ramDir' /\ ram' = disk) ]_vars

\* C3: load while already mounted, and save while not mounted, run no
\* mirror, mount, unmount or deletion, change nothing and exit with code 0.
C3_AlreadyInStateNoOp ==
    [][ ((mounted /\ Ran({"load"})) \/ (~mounted /\ Ran({"save"})))
          => (last'.log = << >> /\ UNCHANGED machine /\ last'.exit = 0) ]_vars

\* C4: backup, restore and restore-select invoked while the profile is not
\* mounted refuse: they run no step and change nothing on the machine (no
\* backup directory, no archive, nothing under the persistent path).
C4_RefuseWhenNotMounted ==
    [][ (~mounted /\ Ran({"backup", "restore", "restore-select"}))
          => (last'.out = "not_active" /\ last'.log = << >> /\ UNCHANGED machine) ]_vars

\* C4's case: a backup was refused and there is still no backup directory.
C4_Witness ==
    last.cmd = "backup" /\ last.out = "not_active" /\ ~mounted /\ ~backupDir

\* C5: whenever the RAM staging directory exists, the profile is mounted.
C5_RamOnlyWhileLoaded == ramDir => mounted

\* The paths an archive's entries name.
EntryPaths(arch) == { Components(arch[i].name) : i \in 1..Len(arch) }

\* The tree a tar stream was taken from: its members but the root.
Untar(tar) == [p \in (DOMAIN tar) \ {<< >>} |-> tar[p]]

\* C6: the archive backup writes from the profile tree T has one entry per
\* path of T, named by that path; and restore of an archive that backup
\* wrote from T leaves every path of T in the profile as it was in T.
C6_ArchiveRoundTrip ==
    [][ /\ (Ran({"backup"}) /\ last'.pick # NoName /\ backups'[last'.pick].valid)
            => /\ EntryPaths(backups'[last'.pick].arch) = DOMAIN Visible
               /\ Len(backups'[last'.pick].arch) = Cardinality(DOMAIN Visible)
        /\ (Ran({"restore", "restore-select"}) /\ last'.out = "restore_complete"
              /\ backups[last'.pick].arch = createArchive(Untar(backups[last'.pick].arch[1].data.tar)))
            => LET T == Untar(backups[last'.pick].arch[1].data.tar)
               IN  \A p \in DOMAIN T : p \in DOMAIN Visible' /\ Visible'[p] = T[p]
      ]_vars

(* The catalog as the specification defines it: the files of BACKUP_DIR  *)
(* whose name ends with the archive extension.                            *)
EndsWith(name, suffix) ==
    /\ Len(name) >= Len(suffix)
    /\ SubSeq(name, Len(name) - Len(suffix) + 1, Len(name)) = suffix

Catalog == { n \in DOMAIN backups : backupDir /\ EndsWith(n, ZIP) }

\* The characters of the names, in the order of their codes.
Ascii ==
    <<"-", ".", "0", "1", "2", "3", "4", "5", "6", "7", "8", "9",
      "a", "b", "c", "d", "e", "f", "i", "k", "l", "n", "o", "p", "r", "s",
      "t", "v", "z">>
CharCode(c) == CHOOSE i \in 1..Len(Ascii) : Ascii[i] = c

\* strcmp(a, b) < 0
RECURSIVE LexLess(_, _)
LexLess(a, b) ==
    IF b = << >> THEN FALSE
    ELSE IF a = << >> THEN TRUE
    ELSE IF Head(a) = Head(b) THEN LexLess(Tail(a), Tail(b))
    ELSE CharCode(Head(a)) < CharCode(Head(b))

\* latest(catalog): the greatest modification time, then the greatest name.
Newer(m, n) ==
    \/ backups[m].mtime < backups[n].mtime
    \/ backups[m].mtime = backups[n].mtime /\ LexLess(m, n)
Latest(C) == CHOOSE n \in C : \A m \in C \ {n} : Newer(m, n)

\* The directory holds nothing but readable archives and other files whose
\* names do not contain the extension; no remove() of the step failed.
AllReadable == \A n \in Matching : backups[n].statOk
NoStray == Matching = Catalog
AllRemoved == \A i \in 1..Len(last'.log) : last'.log[i] # "remove:fail"

\* C7: non-interactive restore over a non-empty catalog unpacks the entry
\* with the greatest modification time, and among those tied on it the one
\* with the lexicographically greatest name.
\* (Stated for the directories of readable archives only.)
C7_RestoreLatest ==
    [][ (Ran({"restore"}) /\ last'.pick # NoName /\ AllReadable /\ NoStray)
          => last'.pick = Latest(Catalog) ]_vars

\* C8: clean-backup on a catalog of n >= 1 entries leaves exactly one
\* entry, one with the greatest modification time, and deletes n - 1; on
\* an empty catalog it deletes nothing.
\* (Stated for the directories of readable archives only.)
C8_KeepLatest ==
    [][ (Ran({"clean-backup"}) /\ AllReadable /\ NoStray /\ AllRemoved)
          => IF Catalog = {} THEN backups' = backups
             ELSE /\ Cardinality(Catalog') = 1
                  /\ Catalog' \subseteq Catalog
                  /\ \A k \in Catalog', n \in Catalog :
                        backups[n].mtime <= backups[k].mtime
                  /\ Cardinality((DOMAIN backups) \ (DOMAIN backups'))
                        = Cardinality(Catalog) - 1 ]_vars

\* C9: a confirmed purge-backup leaves no catalog entry and reports a
\* count equal to the number of entries the catalog had; a purge-backup
\* that was not confirmed deletes nothing.
\* (Stated for the purges in which the directory exists and every remove()
\* succeeds.)
C9_PurgeAll ==
    [][ Ran({"purge-backup"})
          => IF last'.out = "declined" THEN backups' = backups
             ELSE (backupDir /\ AllRemoved)
                    => (Catalog' = {} /\ last'.count = Cardinality(Catalog)) ]_vars

\* C10: restore and restore-select against an empty catalog (the backup
\* directory missing, or holding no archive file) report a not-found error,
\* open no archive and change nothing on the machine.
\* (Stated for the invocations made while the profile is mounted.)
C10_RestoreEmptyCatalog ==
    [][ (Ran({"restore", "restore-select"}) /\ mounted /\ Catalog = {})
          => /\ last'.out \in {"dir_not_found", "no_backups"}
             /\ last'.log = << >>
             /\ UNCHANGED machine ]_vars

\* Whether step x is among the system-level steps invocation o ran.
InLog(o, x) == \E i \in 1..Len(o.log) : o.log[i] = x

\* The invocation o ended in one of the failures: a tool missing, a mount
\* or unmount that failed, a mirror that did not complete, an archive that
\* was not written whole or could not be opened, no backups, a selection
\* out of range, a refusal because the profile is not mounted.
Failed(o) ==
    \/ o.out \in {"rsync_missing", "mount_failed", "unmount_failed", "open_failed",
                  "dir_not_found", "no_backups", "invalid_selection", "not_active"}
    \/ InLog(o, "rsync:none") \/ InLog(o, "rsync:partial")
    \/ InLog(o, "zip:nothing") \/ InLog(o, "zip:truncated")

\* C11: every invocation whose operation fails exits non-zero.
C11_ExitCodes ==
    [][ Failed(last') => last'.exit # 0 ]_vars

\* C12: save deletes the RAM copy, and purge-backup deletes backups, only
\* in an invocation whose confirmation prompt was answered with a yes;
\* without that answer nothing is deleted.
C12_ConfirmBeforeDelete ==
    [][ (Ran({"save", "purge-backup"}) /\ last'.answer # "yes")
          => (~InLog(last', "rm:ok") /\ ramDir' = ramDir /\ ram' = ram
                /\ backups' = backups) ]_vars

\* C13: restore and restore-select write no file or directory outside the
\* profile root, whatever the names of the archive's entries.
C13_RestoreInsideRoot ==
    [][ Ran({"restore", "restore-select"}) => outside' = outside ]_vars

\* A process is past its check of the mount state and has steps left to run
\* on PROFILE_SRC and PROFILE_RAM.
Acting(p) == pc[p] \notin {"idle", "done"}

\* C14: of two invocations run at once on the same profile, at most one
\* is ever past its check of the mount state and acting on the persistent
\* path and the RAM path.
C14_MutualExclusion == Cardinality({ p \in Procs : Acting(p) }) <= 1

\* C15: in a save, the mirror runs only after umount succeeded, the RAM
\* copy is deleted only after the mirror completed, and a mirror that did
\* not complete is reported and leaves the RAM copy in place.
C15_SaveOrder ==
    [][ (mounted /\ Ran({"save"}) /\ Len(last'.log) = 3)
          => /\ last'.log[1] = "umount:ok"
             /\ last'.log[3] = "rm:ok" => last'.log[2] = "rsync:complete"
             /\ last'.log[2] # "rsync:complete"
                  => (last'.out # "saved" /\ ramDir' /\ ram' = ram) ]_vars

\* C16: a save whose umount fails, or whose "Vivaldi is running" question
\* is answered with a no, runs no mirror, deletes nothing, and leaves the
\* profile mounted and the machine as it was.
C16_SaveAbortsUnchanged ==
    [][ (mounted /\ Ran({"save"})
           /\ (last'.answer = "no" \/ InLog(last', "umount:fail")))
          => /\ UNCHANGED machine
             /\ mounted'
             /\ \A i \in 1..Len(last'.log) : last'.log[i] = "umount:fail" ]_vars

\* C16's case: umount failed on a RAM copy that holds unsaved changes.
C16_Witness ==
    /\ last.cmd = "save" /\ InLog(last, "umount:fail")
    /\ mounted /\ ramDir /\ ram # disk

\* C17: restore ends with "Restore complete" only when every entry of the
\* archive was extracted.
C17_PartialRestoreSurfaced ==
    [][ (Ran({"restore", "restore-select"}) /\ last'.out = "restore_complete")
          => ~InLog(last', "entry:fail") ]_vars

\* C18: the catalog is the files whose name ends with the extension:
\* clean-backup and purge-backup delete no other file, restore selects no
\* other file, and status counts no other file.
C18_CatalogBySuffix ==
    [][ /\ Ran({"clean-backup", "purge-backup"})
            => \A n \in (DOMAIN backups) \ (DOMAIN backups') : EndsWith(n, ZIP)
        /\ (Ran({"restore", "restore-select"}) /\ last'.pick # NoName)
            => EndsWith(last'.pick, ZIP)
        /\ Ran({"status"}) => last'.count = Cardinality(Catalog) ]_vars

\* C19: in restore-select over the n entries displayed as [1]..[n], a
\* line starting with the cancel token ends as cancelled, a line whose
\* number is outside 1..n ends as an invalid selection, and in both cases
\* and at end of input no archive is opened and nothing changes; a number
\* k in 1..n, and nothing else, unpacks the entry displayed as [k].
C19_SelectOutcomes ==
    [][ (Ran({"restore-select"}) /\ last'.input # NoInput)
          => LET typed == last'.input
                 n  == Len(last'.shown)
                 valid == typed.c = "line" /\ typed.n \in 1..n
             IN  /\ typed.c \in {"x", "X"} => last'.out = "cancelled"
                 /\ (typed.c = "line" /\ ~valid) => last'.out = "invalid_selection"
                 /\ ~valid => (last'.log = << >> /\ UNCHANGED machine)
                 /\ valid => /\ last'.pick = last'.shown[typed.n]
                             /\ last'.log # << >>
                             /\ last'.log[Len(last'.log)] # "zip_open:fail"
                                   => last'.out = "restore_complete" ]_vars

\* C19's case: the second of several displayed entries was chosen and
\* unpacked.
C19_Witness ==
    /\ last.cmd = "restore-select" /\ last.out = "restore_complete"
    /\ Len(last.shown) >= 2 /\ last.input = [c |-> "line", n |-> 2]
    /\ last.pick = last.shown[2]

\* What each command may take for the latest backup of the directory as
\* it stands, over the orders readdir may return and what an unchecked
\* stat() may leave.
StatusLatest == { ScanStatus(o, NoName, 0) : o \in Orders(Matching) }
RestoreLatest ==
    UNION { { Listed(o)[PickLatest(Listed(o), g, 2, 1)] : o \in Orders(Matching) }
              : g \in [Unreadable -> GarbageTimes] }
CleanLatest ==
    UNION { { ScanKeep(o, g, NoName, 0) : o \in Orders(Matching) }
              : g \in [Unreadable -> GarbageTimes] }

\* C20: on a non-empty catalog, what status reports as Latest, what
\* restore unpacks and what clean-backup keeps is an entry each of the
\* three commands takes for the latest.
\* (Stated for the directories of readable archives only.)
C20_SameLatest ==
    [][ (Ran({"status", "restore", "clean-backup"}) /\ backupDir /\ mounted
           /\ Catalog # {} /\ NoStray /\ AllReadable)
          => last'.pick \in (StatusLatest \cap RestoreLatest \cap CleanLatest) ]_vars

====
